---- MODULE Spec2Model ----
(***************************************************************************)
(* Login feature: validation rules (login.validation), redirect guard      *)
(* (auth.service) and the useLogin submission state machine.               *)
(*                                                                         *)
(* A JavaScript string is modelled as a sequence of one-character strings, *)
(* so that trim, toLowerCase, startsWith and the email regular expression  *)
(* are computed character by character.                                    *)
(***************************************************************************)
EXTENDS Integers, Sequences, FiniteSets, TLC

\* A value of type T | null (or T | undefined) is <<>> for null and <<x>> for x.
NULL    == <<>>
Some(x) == <<x>>

----------------------------------------------------------------------------
(* Characters and string primitives                                        *)

LowerChars == {"a","b","c","d","e","f","g","h","i","j","k","l","m",
               "n","o","p","q","r","s","t","u","v","w","x","y","z"}
UpperChars == {"A","B","C","D","E","F","G","H","I","J","K","L","M",
               "N","O","P","Q","R","S","T","U","V","W","X","Y","Z"}
DigitChars == {"0","1","2","3","4","5","6","7","8","9"}
WhiteChars == {" ", "\t", "\n", "\r"}

\* String.prototype.toLowerCase on one character
LowerOf(c) ==
  CASE c = "A" -> "a" [] c = "B" -> "b" [] c = "C" -> "c" [] c = "D" -> "d"
    [] c = "E" -> "e" [] c = "F" -> "f" [] c = "G" -> "g" [] c = "H" -> "h"
    [] c = "I" -> "i" [] c = "J" -> "j" [] c = "K" -> "k" [] c = "L" -> "l"
    [] c = "M" -> "m" [] c = "N" -> "n" [] c = "O" -> "o" [] c = "P" -> "p"
    [] c = "Q" -> "q" [] c = "R" -> "r" [] c = "S" -> "s" [] c = "T" -> "t"
    [] c = "U" -> "u" [] c = "V" -> "v" [] c = "W" -> "w" [] c = "X" -> "x"
    [] c = "Y" -> "y" [] c = "Z" -> "z" [] OTHER -> c

toLowerCase(s) == [i \in 1..Len(s) |-> LowerOf(s[i])]

\* String.prototype.trim: drop leading and trailing white space
RECURSIVE trimStart(_)
trimStart(s) ==
  IF s # <<>> /\ Head(s) \in WhiteChars THEN trimStart(Tail(s)) ELSE s

RECURSIVE trimEnd(_)
trimEnd(s) ==
  IF s # <<>> /\ s[Len(s)] \in WhiteChars
    THEN trimEnd(SubSeq(s, 1, Len(s) - 1))
    ELSE s

trim(s) == trimEnd(trimStart(s))

\* String.prototype.startsWith
startsWith(s, p) == Len(p) <= Len(s) /\ SubSeq(s, 1, Len(p)) = p

AllIn(s, S) == \A i \in 1..Len(s) : s[i] \in S

Repeat(c, n) == [i \in 1..n |-> c]

----------------------------------------------------------------------------
(* login.validation: rules, validateField, validateLoginForm, sanitizeEmail *)

Letters     == LowerChars \cup UpperChars
LocalChars  == Letters \cup DigitChars \cup {".", "_", "%", "+", "-"}
DomainChars == Letters \cup DigitChars \cup {".", "-"}

TldMinLength      == 2
EmailMaxLength    == 254
PasswordMinLength == 8
PasswordMaxLength == 128

\* EMAIL_REGEX = /^[a-zA-Z0-9._%+-]+@[a-zA-Z0-9.-]+\.[a-zA-Z]{2,}$/
EMAIL_REGEX(s) ==
  \E i \in 2..Len(s) :
    /\ s[i] = "@"
    /\ AllIn(SubSeq(s, 1, i - 1), LocalChars)
    /\ \E j \in (i + 2)..(Len(s) - TldMinLength) :
         /\ s[j] = "."
         /\ AllIn(SubSeq(s, i + 1, j - 1), DomainChars)
         /\ AllIn(SubSeq(s, j + 1, Len(s)), Letters)

emailRules ==
  << [type |-> "required",  message |-> "Email is required"],
     [type |-> "format",    message |-> "Please enter a valid email address"],
     [type |-> "maxLength", message |-> "Email must not exceed 254 characters"] >>

passwordRules ==
  << [type |-> "required",  message |-> "Password is required"],
     [type |-> "minLength", message |-> "Password must be at least 8 characters"],
     [type |-> "maxLength", message |-> "Password must not exceed 128 characters"] >>

\* rule.test(value) of the rule of the given type in the field's rule list
emailTest(type, value) ==
  CASE type = "required"  -> Len(trim(value)) > 0
    [] type = "format"    -> EMAIL_REGEX(trim(value))
    [] type = "maxLength" -> Len(trim(value)) <= EmailMaxLength

\* the password rules with the minimum length one character too high
passwordTest_exclusive(type, value) ==
  CASE type = "required"  -> Len(value) > 0
    [] type = "minLength" -> Len(value) > PasswordMinLength
    [] type = "maxLength" -> Len(value) <= PasswordMaxLength

passwordTest(type, value) ==
  CASE type = "required"  -> Len(value) > 0
    [] type = "minLength" -> Len(value) >= PasswordMinLength
    [] type = "maxLength" -> Len(value) <= PasswordMaxLength

rulesOf(field) ==
  IF field = "email" THEN emailRules
  ELSE IF field = "password" THEN passwordRules
  ELSE <<>>

ruleTest(field, type, value) ==
  IF field = "email" THEN emailTest(type, value) ELSE passwordTest(type, value)

\* the for-loop of validateField: the first rule whose test fails, or null
validateField(field, value) ==
  LET rules  == rulesOf(field)
      failed == {k \in 1..Len(rules) : ~ruleTest(field, rules[k].type, value)}
  IN  IF failed = {} THEN NULL
      ELSE LET k == CHOOSE m \in failed : \A n \in failed : m <= n
           IN  Some([field |-> field, message |-> rules[k].message,
                     type |-> rules[k].type])

\* validateLoginForm skipping the password once the email has failed
validateLoginForm_shortCircuit(values) ==
  LET emailError    == validateField("email", values.email)
      passwordError == IF emailError # NULL THEN NULL
                       ELSE validateField("password", values.password)
      errors == emailError \o passwordError
  IN  [errors |-> errors, isValid |-> Len(errors) = 0, touched |-> {}]

validateLoginForm(values) ==
  LET emailError    == validateField("email", values.email)
      passwordError == validateField("password", values.password)
      \* errors.push(emailError) if non-null, then errors.push(passwordError)
      errors == emailError \o passwordError
  IN  [errors |-> errors, isValid |-> Len(errors) = 0, touched |-> {}]

\* sanitizeEmail trimming the front of the string only
sanitizeEmail_trimStart(email) == toLowerCase(trimStart(email))

sanitizeEmail(email) == toLowerCase(trim(email))

\* canSubmitForm looking at the values only
canSubmitForm_valuesOnly(values, isSubmitting) == validateLoginForm(values).isValid

canSubmitForm(values, isSubmitting) ==
  IF isSubmitting THEN FALSE ELSE validateLoginForm(values).isValid

----------------------------------------------------------------------------
(* auth.service: redirect guard                                            *)

S_http       == <<"h","t","t","p",":","/","/">>
S_https      == <<"h","t","t","p","s",":","/","/">>
S_slashslash == <<"/","/">>
S_javascript == <<"j","a","v","a","s","c","r","i","p","t",":">>
S_data       == <<"d","a","t","a",":">>
S_slash      == <<"/">>
S_dashboard  == <<"/","d","a","s","h","b","o","a","r","d">>
S_profile    == <<"/","p","r","o","f","i","l","e">>
S_settings   == <<"/","s","e","t","t","i","n","g","s">>

allowedPaths == <<S_dashboard, S_profile, S_settings, S_slash>>

\* allowedPaths.some((path) => url === path || url.startsWith(`${path}/`))
matchesAllowedPath(url) ==
  \E k \in 1..Len(allowedPaths) :
    url = allowedPaths[k] \/ startsWith(url, allowedPaths[k] \o S_slash)

\* isValidRedirectUrl without the rejection of protocol-relative urls
isValidRedirectUrl_noSlashSlash(url) ==
  IF url = <<>> \/ Len(trim(url)) = 0 THEN FALSE
  ELSE IF startsWith(url, S_http) \/ startsWith(url, S_https) THEN FALSE
  ELSE IF startsWith(url, S_javascript) \/ startsWith(url, S_data) THEN FALSE
  ELSE IF ~startsWith(url, S_slash) THEN FALSE
  ELSE matchesAllowedPath(url)

isValidRedirectUrl(url) ==
  IF url = <<>> \/ Len(trim(url)) = 0 THEN FALSE
  ELSE IF startsWith(url, S_http) \/ startsWith(url, S_https)
          \/ startsWith(url, S_slashslash) THEN FALSE
  ELSE IF startsWith(url, S_javascript) \/ startsWith(url, S_data) THEN FALSE
  ELSE IF ~startsWith(url, S_slash) THEN FALSE
  ELSE matchesAllowedPath(url)

\* the default value of the parameter defaultUrl, used when the argument is
\* omitted (NULL)
defaultUrlOf(defaultUrl) == IF defaultUrl = NULL THEN S_dashboard ELSE defaultUrl[1]

\* getSafeRedirectUrl returning its candidate without validating it
getSafeRedirectUrl_unchecked(redirectUrl, defaultUrl) ==
  IF redirectUrl # NULL /\ redirectUrl[1] # <<>>
    THEN redirectUrl[1]
    ELSE defaultUrlOf(defaultUrl)

\* redirectUrl is NULL when the argument is undefined, Some(url) otherwise;
\* the empty string is falsy in `redirectUrl && ...`; defaultUrl is NULL
\* when the second argument is omitted
getSafeRedirectUrl(redirectUrl, defaultUrl) ==
  IF redirectUrl # NULL /\ redirectUrl[1] # <<>> /\ isValidRedirectUrl(redirectUrl[1])
    THEN redirectUrl[1]
    ELSE defaultUrlOf(defaultUrl)

----------------------------------------------------------------------------
(* useLogin: the form-session state machine                                *)
(*                                                                         *)
(* Every handler runs to completion on the event loop and the component    *)
(* re-renders before the next event, so a handler's closure holds the      *)
(* current state.  The only suspension point is `await login(...)`: the    *)
(* part of handleSubmit after it is the step Resolve or Reject of that     *)
(* call.                                                                   *)

VARIABLES
  values,            \* useState<LoginFormValues>
  errors,            \* useState<FieldError[]>
  touched,           \* useState<Partial<Record<field, boolean>>>: the fields set to true
  submissionState,   \* useState<SubmissionState>
  authError,         \* useState<AuthError | null>
  isSubmittingRef,   \* useRef(false).current
  validateOnChange,  \* options.validateOnChange
  validateOnBlur,    \* options.validateOnBlur
  pending,           \* number of login() calls started and not yet settled
  last,              \* the event that ran last: its name, its argument (the
                     \* credentials given to login(), or the value login()
                     \* settled with) and the callbacks it invoked, in order
  redirectArg,       \* argument of the last redirect-guard evaluation
  redirectResult,    \* its result
  page,              \* NULL when useLogin is used on its own; the props of
                     \* the LoginPage that passes its handlers to useLogin
  call,              \* a call of a pure function: its name and arguments
  result,            \* what that call returned, NULL before it returns
  req,               \* the request of one login() call in the auth client
  visibility,        \* usePasswordVisibility: useState<PasswordVisibility>
  toggles            \* number of calls of toggleVisibility so far

hookVars == <<values, errors, touched, submissionState, authError,
              isSubmittingRef, validateOnChange, validateOnBlur, pending, last>>
redirectVars == <<redirectArg, redirectResult>>
evalVars == <<call, result>>
pageVars == <<page, visibility, toggles>>
nonHookVars == <<pageVars, redirectVars, evalVars, req>>
vars == <<hookVars, nonHookVars>>

\* Bound on the number of login() calls outstanding at the same time
MaxOutstanding == 2

Fields == {"email", "password", "rememberMe"}
SubmissionStates == {"idle", "submitting", "success", "error"}

S_empty    == <<>>
S_rawEmail == <<" ","A","@","b",".","c","o"," ">>
S_email    == <<"a","@","b",".","c","o">>
S_badEmail == <<"b","a","d">>
S_short    == <<"s","h","o","r","t">>
S_password == <<"p","a","s","s","w","o","r","d">>
S_evil     == <<"e","v","i","l",".","c","o","m">>

\* what the user can type into the two text inputs
EmailInputs    == {S_empty, S_rawEmail, S_badEmail}
PasswordInputs == {S_empty, S_short, S_password}

\* what the authentication client can resolve with / reject with
Responses ==
  { [token |-> "token-1", redirectUrl |-> NULL],
    [token |-> "token-2", redirectUrl |-> Some(S_profile)],
    [token |-> "token-3", redirectUrl |-> Some(S_slashslash \o S_evil)] }
AuthErrors ==
  { [code |-> "INVALID_CREDENTIALS", message |-> "Invalid email or password"],
    [code |-> "NETWORK_ERROR", message |-> "Request timeout - please try again"] }

\* the exception a caller-supplied onSuccess may throw (not an AuthError)
CallbackException == [code |-> "undefined", message |-> "onSuccess threw"]

INITIAL_FORM_VALUES == [email |-> S_empty, password |-> S_empty, rememberMe |-> FALSE]

Event(op, arg, callbacks) == [op |-> op, arg |-> arg, callbacks |-> callbacks]
Call(fn, arg) == [fn |-> fn, arg |-> arg]

HookInit ==
  /\ values = INITIAL_FORM_VALUES
  /\ errors = <<>>
  /\ touched = {}
  /\ submissionState = "idle"
  /\ authError = NULL
  /\ isSubmittingRef = FALSE
  /\ validateOnChange \in BOOLEAN
  /\ validateOnBlur \in BOOLEAN
  /\ pending = 0
  /\ last = Event("init", NULL, <<>>)

\* prev.filter((err) => err.field !== field)
filterField(errs, field) == SelectSeq(errs, LAMBDA err : err.field # field)

\* a change or blur that adds the new error without dropping the old one of
\* the field (unless the very same error is already there)
replaceFieldError_append(errs, field, fieldError) ==
  IF fieldError # NULL /\ \E i \in DOMAIN errs : errs[i] = fieldError[1]
    THEN errs
    ELSE errs \o fieldError

\* setErrors((prev) => { filtered; fieldError ? [...filtered, fieldError] : filtered })
replaceFieldError(errs, field, fieldError) == filterField(errs, field) \o fieldError

\* handleChange storing the raw input, without sanitizeEmail
changedValue_raw(field, value) == value

\* the value handleChange stores for the field
changedValue(field, value) ==
  IF field = "email" THEN sanitizeEmail(value) ELSE value

\* handleChange leaving a stored AuthError in place
changedAuthError_kept(ae) == ae

\* if (authError) setAuthError(null)
changedAuthError(ae) == IF ae # NULL THEN NULL ELSE ae

\* handleChange(field, value), value a string for email and password and a
\* boolean for rememberMe
HandleChange(field, value) ==
  /\ values' = [values EXCEPT ![field] = changedValue(field, value)]
  /\ authError' = changedAuthError(authError)
  /\ errors' = IF validateOnChange /\ field # "rememberMe"
                 THEN replaceFieldError(errors, field, validateField(field, value))
               ELSE IF validateOnChange
                 THEN filterField(errors, field)
               ELSE errors
  /\ last' = Event("handleChange", NULL, <<>>)
  /\ UNCHANGED <<touched, submissionState, isSubmittingRef, validateOnChange,
                 validateOnBlur, pending, nonHookVars>>

HandleBlur(field) ==
  /\ touched' = touched \cup {field}
  /\ errors' = IF validateOnBlur /\ field # "rememberMe"
                 THEN replaceFieldError(errors, field, validateField(field, values[field]))
                 ELSE errors
  /\ last' = Event("handleBlur", NULL, <<>>)
  /\ UNCHANGED <<values, submissionState, authError, isSubmittingRef,
                 validateOnChange, validateOnBlur, pending, nonHookVars>>

\* handleSubmit without the duplicate-submission guard
submitDropped_never(ref) == FALSE

\* a guard that also refuses a submit once a login has succeeded
submitDropped_afterSuccess(ref) == ref \/ submissionState = "success"

\* the duplicate-submission guard of handleSubmit
submitDropped(ref) == ref

\* the credentials object handed to login()
credentialsOf(v) ==
  [email |-> v.email, password |-> v.password, rememberMe |-> v.rememberMe]

\* an invalid submit leaving the form idle
invalidSubmitState_idle == "idle"

\* submissionState set when the whole-form validation fails
invalidSubmitState == "error"

\* a submit that keeps the errors already shown instead of replacing them
submittedErrors_kept(validation) ==
  IF errors # <<>> THEN errors ELSE validation.errors

\* setErrors(validation.errors)
submittedErrors(validation) == validation.errors

\* handleSubmit up to and including the call of login()
HandleSubmit ==
  IF submitDropped(isSubmittingRef)
    THEN /\ last' = Event("submit_dropped", NULL, <<>>)
         /\ UNCHANGED <<values, errors, touched, submissionState, authError,
                        isSubmittingRef, validateOnChange, validateOnBlur, pending,
                        nonHookVars>>
    ELSE LET validation == validateLoginForm(values) IN
         /\ errors' = submittedErrors(validation)
         /\ touched' = {"email", "password", "rememberMe"}
         /\ IF ~validation.isValid
              THEN /\ submissionState' = invalidSubmitState
                   /\ last' = Event("submit_invalid", NULL, <<>>)
                   /\ UNCHANGED <<authError, isSubmittingRef, pending>>
              ELSE /\ pending < MaxOutstanding
                   /\ isSubmittingRef' = TRUE
                   /\ submissionState' = "submitting"
                   /\ authError' = NULL
                   /\ pending' = pending + 1
                   /\ last' = Event("submit_started", Some(credentialsOf(values)), <<>>)
         /\ UNCHANGED <<values, validateOnChange, validateOnBlur, nonHookVars>>

\* a catch block that rewrites the message of what it caught
caught_rewritten(err) == [code |-> err.code, message |-> "Login failed"]

\* the value the catch block stores as authError
caught(err) == err

\* a finally block that leaves the flag as it is
finallyRef_kept == isSubmittingRef

\* flag value written by the finally block
finallyRef == FALSE

\* a || b on optional strings: a unless it is undefined or ''
orElse(a, b) == IF a # NULL /\ a[1] # <<>> THEN a ELSE b

\* LoginPage navigating to its candidate without the redirect guard
safeRedirectUrl_unguarded(redirectTo, response) ==
  LET candidate == orElse(redirectTo, response.redirectUrl)
  IN  IF candidate = NULL THEN S_dashboard ELSE candidate[1]

\* LoginPage.handleLoginSuccess: const safeRedirectUrl = getSafeRedirectUrl(...)
safeRedirectUrl(redirectTo, response) ==
  getSafeRedirectUrl(orElse(redirectTo, response.redirectUrl), Some(S_dashboard))

\* what onSuccess does after the caller's own handler returned: nothing more
\* when useLogin is used on its own, navigate(safeRedirectUrl) in LoginPage
handleLoginSuccess(response) ==
  IF page = NULL THEN <<>>
  ELSE <<Call("navigate", safeRedirectUrl(page[1].redirectTo, response))>>

\* submissionState set when login() resolved and onSuccess returned
resolvedState == "success"

\* login() resolved with response: rest of the try block (and the catch
\* block when onSuccess throws), then finally
Resolve(response, onSuccessThrows) ==
  /\ pending > 0
  /\ pending' = pending - 1
  /\ IF onSuccessThrows
       THEN /\ authError' = Some(caught(CallbackException))
            /\ submissionState' = "error"
            /\ last' = Event("resolve", Some(response),
                             <<Call("onSuccess", response),
                               Call("onError", caught(CallbackException))>>)
       ELSE /\ submissionState' = resolvedState
            /\ last' = Event("resolve", Some(response),
                             <<Call("onSuccess", response)>> \o handleLoginSuccess(response))
            /\ UNCHANGED authError
  /\ isSubmittingRef' = finallyRef
  /\ UNCHANGED <<values, errors, touched, validateOnChange, validateOnBlur,
                 nonHookVars>>

\* login() rejected with err: catch, then finally
Reject(err) ==
  /\ pending > 0
  /\ pending' = pending - 1
  /\ authError' = Some(caught(err))
  /\ submissionState' = "error"
  /\ last' = Event("reject", Some(err), <<Call("onError", caught(err))>>)
  /\ isSubmittingRef' = finallyRef
  /\ UNCHANGED <<values, errors, touched, validateOnChange, validateOnBlur,
                 nonHookVars>>

\* resetForm leaving the flag as it is
resetRef_kept == isSubmittingRef

\* flag value written by resetForm
resetRef == FALSE

ResetForm ==
  /\ values' = INITIAL_FORM_VALUES
  /\ errors' = <<>>
  /\ touched' = {}
  /\ submissionState' = "idle"
  /\ authError' = NULL
  /\ isSubmittingRef' = resetRef
  /\ last' = Event("resetForm", NULL, <<>>)
  /\ UNCHANGED <<validateOnChange, validateOnBlur, pending, nonHookVars>>

\* computed values returned by the hook
canSubmit == canSubmitForm(values, submissionState = "submitting")
isSubmitting == submissionState = "submitting"

Change ==
  \/ \E v \in EmailInputs : HandleChange("email", v)
  \/ \E v \in PasswordInputs : HandleChange("password", v)
  \/ \E v \in BOOLEAN : HandleChange("rememberMe", v)

Blur == \E f \in Fields : HandleBlur(f)

Settle ==
  \/ \E r \in Responses, t \in BOOLEAN : Resolve(r, t)
  \/ \E e \in AuthErrors : Reject(e)

\* no pure-function call under evaluation
NoCall == [fn |-> "none", args |-> <<>>]

\* no request in the authentication client
IdleRequest ==
  [phase |-> "idle", timer |-> "unset", timeout |-> 0, status |-> NULL,
   body |-> NULL, cause |-> "none", outcome |-> NULL]

\* useLogin on its own: no LoginPage around it, nothing else running
\* usePasswordVisibility after its first render
Masked == visibility = "hidden" /\ toggles = 0

HookOnly ==
  page = NULL /\ Masked /\ call = NoCall /\ result = NULL /\ req = IdleRequest

Init == HookInit /\ redirectArg = <<>> /\ redirectResult = NULL /\ HookOnly

Next ==
  \/ Change
  \/ Blur
  \/ HandleSubmit
  \/ Settle
  \/ ResetForm

Spec == Init /\ [][Next]_vars

\* the authentication client bounds every call by a timeout, so every
\* outstanding call eventually settles
FairSpec == Spec /\ WF_vars(Settle)

----------------------------------------------------------------------------
(* LoginPage: useLogin with the page's handlers as onSuccess and onError   *)

S_customDashboard ==
  <<"/","c","u","s","t","o","m","-","d","a","s","h","b","o","a","r","d">>

\* the redirectTo prop: absent, or a string
RedirectToProps ==
  {NULL, Some(<<>>), Some(S_customDashboard), Some(S_settings),
   Some(S_https \o S_evil)}

Pages == {Some([redirectTo |-> r]) : r \in RedirectToProps}

\* useLogin({onSuccess: handleLoginSuccess, onError: handleLoginError,
\*           validateOnBlur: true})
PageInit ==
  /\ HookInit
  /\ validateOnChange = FALSE
  /\ validateOnBlur = TRUE
  /\ page \in Pages
  /\ Masked
  /\ redirectArg = <<>>
  /\ redirectResult = NULL
  /\ call = NoCall
  /\ result = NULL
  /\ req = IdleRequest

PageSpec == PageInit /\ [][Next]_vars


----------------------------------------------------------------------------
(* LoginPage: the password field edited and shown or hidden                *)

\* Bound on the number of calls of toggleVisibility
MaxToggles == 4

\* a toggle that only ever shows the password
toggled_showOnly(prev) == "visible"

\* setVisibility((prev) => (prev === 'hidden' ? 'visible' : 'hidden'))
toggled(prev) == IF prev = "hidden" THEN "visible" ELSE "hidden"

\* computed values returned by usePasswordVisibility
isVisible == visibility = "visible"
inputType == IF isVisible THEN "text" ELSE "password"

ToggleVisibility ==
  /\ toggles < MaxToggles
  /\ visibility' = toggled(visibility)
  /\ toggles' = toggles + 1
  /\ UNCHANGED <<hookVars, page, redirectVars, evalVars, req>>

\* the user edits the two fields and shows or hides the password
VisibilityNext ==
  \/ ToggleVisibility
  \/ Change
  \/ Blur

VisibilitySpec == PageInit /\ [][VisibilityNext]_vars

----------------------------------------------------------------------------
(* Redirect guard applied to candidate destinations                        *)

\* Bound on the length of the candidates enumerated over UrlAlphabet
MaxUrlLen == 2

UrlAlphabet == {"/", "a", " ", ":"}

RECURSIVE StringsUpTo(_)
StringsUpTo(n) ==
  IF n = 0 THEN {<<>>}
  ELSE LET shorter == StringsUpTo(n - 1)
       IN  shorter \cup {Append(t, c) : t \in shorter, c \in UrlAlphabet}

S_admin        == <<"/","a","d","m","i","n">>
S_unauthorized == <<"/","u","n","a","u","t","h","o","r","i","z","e","d">>
S_noSlash      == <<"d","a","s","h","b","o","a","r","d">>
S_dash         == <<"/","d","a","s","h">>

UrlHeads ==
  {<<>>, S_http, S_https, S_slashslash, S_javascript, S_data, S_slash,
   S_dashboard, S_profile, S_settings, S_admin, S_unauthorized, S_noSlash,
   S_dash, <<" ">>, <<"\t">>}
UrlTails ==
  {<<>>, S_slash, <<"x">>, <<"/","x">>, <<" ">>, S_evil, S_dashboard,
   <<"/","e","d","i","t","/">>}

RedirectCandidates ==
  {h \o t : h \in UrlHeads, t \in UrlTails} \cup StringsUpTo(MaxUrlLen)

RedirectInit ==
  /\ HookInit
  /\ redirectArg \in RedirectCandidates
  /\ redirectResult = NULL
  /\ HookOnly

\* const ok = isValidRedirectUrl(url)
CheckRedirect ==
  /\ redirectResult = NULL
  /\ redirectResult' = Some(isValidRedirectUrl(redirectArg))
  /\ UNCHANGED <<redirectArg, hookVars, pageVars, evalVars, req>>

\* the next candidate arrives
NextCandidate ==
  /\ redirectResult # NULL
  /\ redirectArg' \in RedirectCandidates
  /\ redirectResult' = NULL
  /\ UNCHANGED <<hookVars, pageVars, evalVars, req>>

RedirectNext == CheckRedirect \/ NextCandidate

RedirectSpec == RedirectInit /\ [][RedirectNext]_vars

----------------------------------------------------------------------------
(* The pure functions of the feature applied to bounded sets of arguments  *)

FnCall(fn, args) == [fn |-> fn, args |-> args]

S_login == <<"/","l","o","g","i","n">>

\* first argument of getSafeRedirectUrl: undefined or a string
SafeRedirectCandidates == {NULL} \cup {Some(u) : u \in RedirectCandidates}

\* second argument of getSafeRedirectUrl: omitted or a string, safe or not
SafeRedirectDefaults ==
  {NULL, Some(S_dashboard), Some(S_login), Some(S_http \o S_evil), Some(<<>>)}

SafeRedirectCalls ==
  {FnCall("getSafeRedirectUrl", [redirectUrl |-> c, defaultUrl |-> d]) :
     c \in SafeRedirectCandidates, d \in SafeRedirectDefaults}

\* Bound on the length of the strings enumerated over a small alphabet
MaxStrLen == 3

RECURSIVE StringsOver(_, _)
StringsOver(alphabet, n) ==
  IF n = 0 THEN {<<>>}
  ELSE LET shorter == StringsOver(alphabet, n - 1)
       IN  shorter \cup {Append(t, c) : t \in shorter, c \in alphabet}

S_atDomain     == <<"@","d","o","m","a","i","n",".","c","o","m">>
S_invalid      == <<"i","n","v","a","l","i","d">>
S_invalidAt    == <<"i","n","v","a","l","i","d","@">>
S_atInvalid    == <<"@","i","n","v","a","l","i","d",".","c","o","m">>
S_invalidSpace == <<"i","n","v","a","l","i","d"," ","@","d","o","m","a","i","n",".","c","o","m">>
S_invalidDots  == <<"i","n","v","a","l","i","d",".",".","e","m","a","i","l","@","d","o","m","a","i","n",".","c","o","m">>
S_userExample  == <<"u","s","e","r","@","e","x","a","m","p","l","e",".","c","o","m">>
S_userTag      == <<"u","s","e","r","+","t","a","g","@","e","x","a","m","p","l","e",".","c","o","m">>
S_spaces       == <<" "," "," ">>

\* email values: those of the validation tests, values around the maximum
\* length, and every short string over EmailAlphabet
EmailAlphabet == {"a", "A", "@", ".", " "}
EmailSamples ==
  {S_empty, S_spaces, S_rawEmail, S_email, S_badEmail, S_invalid, S_invalidAt,
   S_atInvalid, S_invalidSpace, S_invalidDots, S_userExample, S_userTag,
   Repeat("a", 243) \o S_atDomain, Repeat("a", 244) \o S_atDomain,
   Repeat("a", 245) \o S_atDomain, <<" ">> \o Repeat("a", 243) \o S_atDomain \o <<" ">>,
   Repeat("a", 254), Repeat("a", 255)}
    \cup StringsOver(EmailAlphabet, MaxStrLen)

\* password values: lengths around the two limits, blanks, short strings
PasswordAlphabet == {"p", " "}
PasswordSamples ==
  {S_empty, S_short, S_password, S_spaces, Repeat("a", 7), Repeat("a", 8),
   Repeat(" ", 8), Repeat("a", 128), Repeat("a", 129)}
    \cup StringsOver(PasswordAlphabet, MaxStrLen)

ValidateFieldCalls ==
  {FnCall("validateField", [field |-> f, value |-> v]) :
     f \in Fields, v \in EmailSamples \cup PasswordSamples}

\* form values: every combination of a few emails and passwords of each kind
FormEmails ==
  {S_empty, S_spaces, S_rawEmail, S_email, S_invalid, S_invalidDots,
   Repeat("a", 245) \o S_atDomain}
FormPasswords ==
  {S_empty, S_short, S_password, Repeat(" ", 8), Repeat("a", 128), Repeat("a", 129)}
FormValues ==
  {[email |-> e, password |-> pw, rememberMe |-> r] :
     e \in FormEmails, pw \in FormPasswords, r \in BOOLEAN}

ValidateLoginFormCalls ==
  {FnCall("validateLoginForm", [values |-> v]) : v \in FormValues}

SanitizeAlphabet == {"a", "A", "Z", " ", "\t", "\n"}
SanitizeEmailCalls ==
  {FnCall("sanitizeEmail", [email |-> e]) :
     e \in EmailSamples \cup StringsOver(SanitizeAlphabet, MaxStrLen)}

EvalCalls ==
  SafeRedirectCalls \cup ValidateFieldCalls \cup ValidateLoginFormCalls
    \cup SanitizeEmailCalls

\* the options of useLogin left at their defaults
DefaultOptions == validateOnChange = FALSE /\ validateOnBlur = TRUE

EvalInit ==
  /\ HookInit
  /\ DefaultOptions
  /\ redirectArg = <<>>
  /\ redirectResult = NULL
  /\ page = NULL
  /\ Masked
  /\ req = IdleRequest
  /\ call \in EvalCalls
  /\ result = NULL

\* the call under evaluation returns v
Returns(v) ==
  /\ result = NULL
  /\ result' = Some(v)
  /\ UNCHANGED <<call, hookVars, redirectVars, pageVars, req>>

EvalGetSafeRedirectUrl ==
  /\ call.fn = "getSafeRedirectUrl"
  /\ Returns(getSafeRedirectUrl(call.args.redirectUrl, call.args.defaultUrl))

EvalValidateField ==
  /\ call.fn = "validateField"
  /\ Returns(validateField(call.args.field, call.args.value))

EvalValidateLoginForm ==
  /\ call.fn = "validateLoginForm"
  /\ Returns(validateLoginForm(call.args.values))

EvalSanitizeEmail ==
  /\ call.fn = "sanitizeEmail"
  /\ Returns(sanitizeEmail(call.args.email))

\* the caller takes the returned value
TakeResult ==
  /\ result # NULL
  /\ call' = NoCall
  /\ result' = NULL
  /\ UNCHANGED <<hookVars, redirectVars, pageVars, req>>

\* the next call is made
NextCall ==
  /\ call = NoCall
  /\ call' \in EvalCalls
  /\ result' = NULL
  /\ UNCHANGED <<hookVars, redirectVars, pageVars, req>>

EvalNext ==
  \/ EvalGetSafeRedirectUrl
  \/ EvalValidateField
  \/ EvalValidateLoginForm
  \/ EvalSanitizeEmail
  \/ TakeResult
  \/ NextCall

EvalSpec == EvalInit /\ [][EvalNext]_vars

----------------------------------------------------------------------------
(* auth.service: one login() call in fetchWithTimeout                      *)
(*                                                                         *)
(* req.phase is the await at which the call is suspended: "fetching" at    *)
(* `await fetch(...)`, "errorBody" at `await response.json().catch(...)`,  *)
(* "body" at `return await response.json()`; "settled" once login() has    *)
(* resolved or rejected.  req.timer is the timer of setTimeout.            *)

\* API_CONFIG.timeout, in milliseconds
API_CONFIG_timeout == 10000

\* the statuses a response can carry
Statuses ==
  {200, 201, 204, 304, 400, 401, 403, 404, 408, 409, 422, 423, 429,
   500, 501, 502, 503, 504}

\* response.ok
ok(status) == status >= 200 /\ status <= 299

\* what response.json() can give for an error response: an object with or
\* without a message, the JSON value null, or a rejection (no valid JSON)
EmptyObject == [json |-> "object", message |-> NULL]
JsonObject(message) == [json |-> "object", message |-> Some(message)]
JsonNull == [json |-> "null", message |-> NULL]
NotJson == [json |-> "invalid", message |-> NULL]
ErrorBodies ==
  {EmptyObject, JsonObject("Invalid credentials"), JsonObject("Try again later"),
   JsonNull, NotJson}

\* an Error instance, as opposed to the plain object AuthError
Exception(name, message) == [name |-> name, message |-> message]
AbortError == Exception("AbortError", "The operation was aborted")
FetchTypeError == Exception("TypeError", "Failed to fetch")
SyntaxError == Exception("SyntaxError", "Unexpected token in JSON")
\* data.message evaluated on null while errorMap is built
NullDataTypeError == Exception("TypeError", "Cannot read properties of null")

AuthErrorCode ==
  {"INVALID_CREDENTIALS", "ACCOUNT_LOCKED", "ACCOUNT_DISABLED", "TOO_MANY_ATTEMPTS",
   "SESSION_EXPIRED", "NETWORK_ERROR", "SERVER_ERROR", "VALIDATION_ERROR"}

\* createAuthError(status, data) for data that is an object: errorMap[status]
\* or the fallback
createAuthError(status, data) ==
  CASE status = 400 -> [code |-> "VALIDATION_ERROR",
                        message |-> "Invalid login credentials format"]
    [] status = 401 -> [code |-> "INVALID_CREDENTIALS",
                        message |-> "Invalid email or password"]
    [] status = 403 -> [code |-> "ACCOUNT_DISABLED",
                        message |-> "Your account has been disabled"]
    [] status = 408 -> [code |-> "NETWORK_ERROR",
                        message |-> "Request timeout - please try again"]
    [] status = 423 -> [code |-> "ACCOUNT_LOCKED",
                        message |-> "Your account has been locked due to too many failed attempts"]
    [] status = 429 -> [code |-> "TOO_MANY_ATTEMPTS",
                        message |-> "Too many login attempts - please try again later"]
    [] status = 500 -> [code |-> "SERVER_ERROR",
                        message |-> "Server error - please try again later"]
    [] status = 0   -> [code |-> "NETWORK_ERROR",
                        message |-> IF data.message # NULL /\ data.message[1] # ""
                                      THEN data.message[1]
                                      ELSE "Network error occurred"]
    [] OTHER        -> [code |-> "SERVER_ERROR", message |-> "An unexpected error occurred"]

\* the object literal errorMap reads data.message whatever the status, which
\* throws a TypeError when data is null
createAuthErrorThrows(data) == data.json = "null"

\* error instanceof Error && error.name === name
IsErrorNamed(error, name) == "name" \in DOMAIN error /\ error.name = name

\* the catch block of fetchWithTimeout: what it throws for what it caught
catchFetch(error) ==
  IF IsErrorNamed(error, "AbortError")
    THEN createAuthError(408, JsonObject("Request timeout"))
  ELSE IF IsErrorNamed(error, "TypeError")
    THEN createAuthError(0, JsonObject("Network error - please check your connection"))
  ELSE error

\* const errorData = await response.json().catch(() => ({}))
errorDataOf(body) == IF body = NotJson THEN EmptyObject ELSE body

\* throw createAuthError(response.status, errorData), inside the try block
thrownForStatus(status, errorData) ==
  IF createAuthErrorThrows(errorData) THEN NullDataTypeError
  ELSE createAuthError(status, errorData)

Resolved(value) == Some([kind |-> "resolved", value |-> value])
Rejected(error) == Some([kind |-> "rejected", value |-> error])

\* login() is called: setTimeout(() => controller.abort(), timeout), fetch(...)
StartLogin ==
  /\ req.phase \in {"idle", "settled"}
  /\ req' = [phase |-> "fetching", timer |-> "armed", timeout |-> API_CONFIG_timeout,
             status |-> NULL, body |-> NULL, cause |-> "none", outcome |-> NULL]
  /\ UNCHANGED <<hookVars, redirectVars, pageVars, evalVars>>

\* the response headers arrive: fetch() resolves, clearTimeout(timeoutId)
FetchResolves(status) ==
  /\ req.phase = "fetching"
  /\ req' = [req EXCEPT !.phase = IF ok(status) THEN "body" ELSE "errorBody",
                        !.timer = "cleared",
                        !.status = Some(status)]
  /\ UNCHANGED <<hookVars, redirectVars, pageVars, evalVars>>

\* the transport fails: fetch() rejects with a TypeError
FetchRejects ==
  /\ req.phase = "fetching"
  /\ req' = [req EXCEPT !.phase = "settled",
                        !.timer = "cleared",
                        !.cause = "transport",
                        !.outcome = Rejected(catchFetch(FetchTypeError))]
  /\ UNCHANGED <<hookVars, redirectVars, pageVars, evalVars>>

\* the timer fires: controller.abort(), fetch() rejects with an AbortError
TimerFires ==
  /\ req.timer = "armed"
  /\ req.phase = "fetching"
  /\ req' = [req EXCEPT !.phase = "settled",
                        !.timer = "fired",
                        !.cause = "timeout",
                        !.outcome = Rejected(catchFetch(AbortError))]
  /\ UNCHANGED <<hookVars, redirectVars, pageVars, evalVars>>

\* the body of an error response has been read
ErrorBodyRead(body) ==
  /\ req.phase = "errorBody"
  /\ req' = [req EXCEPT !.phase = "settled",
                        !.body = Some(body),
                        !.cause = "status",
                        !.outcome = Rejected(catchFetch(
                                       thrownForStatus(req.status[1], errorDataOf(body))))]
  /\ UNCHANGED <<hookVars, redirectVars, pageVars, evalVars>>

\* the body of a 2xx response has been read and parsed
BodyParsed(response) ==
  /\ req.phase = "body"
  /\ req' = [req EXCEPT !.phase = "settled",
                        !.body = Some(response),
                        !.outcome = Resolved(response)]
  /\ UNCHANGED <<hookVars, redirectVars, pageVars, evalVars>>

\* the body of a 2xx response is not JSON: response.json() rejects with a
\* SyntaxError
BodyNotJson ==
  /\ req.phase = "body"
  /\ req' = [req EXCEPT !.phase = "settled",
                        !.body = Some(NotJson),
                        !.cause = "parse",
                        !.outcome = Rejected(catchFetch(SyntaxError))]
  /\ UNCHANGED <<hookVars, redirectVars, pageVars, evalVars>>

\* the connection breaks while the body of a 2xx response is read:
\* response.json() rejects with a TypeError
BodyFails ==
  /\ req.phase = "body"
  /\ req' = [req EXCEPT !.phase = "settled",
                        !.cause = "transport",
                        !.outcome = Rejected(catchFetch(FetchTypeError))]
  /\ UNCHANGED <<hookVars, redirectVars, pageVars, evalVars>>

FetchInit ==
  /\ HookInit
  /\ DefaultOptions
  /\ redirectArg = <<>>
  /\ redirectResult = NULL
  /\ page = NULL
  /\ Masked
  /\ call = NoCall
  /\ result = NULL
  /\ req = IdleRequest

FetchNext ==
  \/ StartLogin
  \/ \E status \in Statuses : FetchResolves(status)
  \/ FetchRejects
  \/ TimerFires
  \/ \E body \in ErrorBodies : ErrorBodyRead(body)
  \/ \E response \in Responses : BodyParsed(response)
  \/ BodyNotJson
  \/ BodyFails

FetchSpec == FetchInit /\ [][FetchNext]_vars

\* the event loop runs the callback of a timer that stays armed; nothing
\* obliges the network to deliver headers or a body
FairFetchSpec == FetchSpec /\ WF_vars(TimerFires)

----------------------------------------------------------------------------
(* Properties                                                              *)

SubmitOps == {"submit_dropped", "submit_invalid", "submit_started"}
FieldOps  == {"handleChange", "handleBlur"}

\* C1: the number of outstanding (started, not yet settled) login() calls of
\* one form session is never greater than one.
C1_AtMostOneOutstanding == pending <= 1

\* C2: a handleSubmit invoked directly after an accepted handleSubmit, before
\* login() settles, is dropped: login() is not invoked again, no callback runs,
\* and values, errors, touched, submissionState and authError are unchanged.
C2_SecondSubmitDropped ==
  [][ (last.op = "submit_started" /\ last'.op \in SubmitOps)
        => /\ last'.op = "submit_dropped"
           /\ pending' = pending
           /\ last'.callbacks = <<>>
           /\ UNCHANGED <<values, errors, touched, submissionState, authError>> ]_vars

C2_Witness ==
  /\ last.op = "submit_dropped"
  /\ pending = 1
  /\ submissionState = "submitting"
  /\ isSubmittingRef

\* C3: an accepted handleSubmit (flag clear) on values that fail
\* validateLoginForm does not invoke login(), sets submissionState to 'error'
\* in the same step, marks the three fields touched, leaves the flag clear and
\* authError as it was, and invokes no callback.
C3_InvalidSubmit ==
  [][ (last'.op \in SubmitOps /\ ~isSubmittingRef /\ ~validateLoginForm(values).isValid)
        => /\ last'.op = "submit_invalid"
           /\ pending' = pending
           /\ submissionState' = "error"
           /\ touched' = Fields
           /\ isSubmittingRef' = FALSE
           /\ last'.callbacks = <<>>
           /\ UNCHANGED authError ]_vars

C3_Witness ==
  /\ last.op = "submit_invalid"
  /\ submissionState = "error"
  /\ touched = Fields
  /\ Len(errors) > 0
  /\ pending = 0

\* the steps shared by the two end-to-end scenarios: field events leave
\* submissionState alone and invoke no callback, and a submit of valid values
\* from the idle state with nothing outstanding moves idle -> submitting
ScenarioStart ==
  /\ (last'.op \in FieldOps => submissionState' = submissionState /\ last'.callbacks = <<>>)
  /\ (last'.op \in SubmitOps => last'.callbacks = <<>>)
  /\ (/\ last'.op \in SubmitOps
      /\ submissionState = "idle"
      /\ pending = 0
      /\ validateLoginForm(values).isValid)
        => /\ last'.op = "submit_started"
           /\ submissionState' = "submitting"
           /\ pending' = 1

\* C4: from the initial state, with valid values and a client that resolves,
\* submissionState goes idle -> submitting -> success, ending with authError
\* null and the flag clear, onSuccess invoked once with the response and
\* onError not invoked.
C4_SuccessPath ==
  [][ /\ ScenarioStart
      /\ (submissionState = "submitting" /\ pending = 1 /\ last'.op = "resolve")
           => /\ submissionState' = "success"
              /\ authError' = NULL
              /\ isSubmittingRef' = FALSE
              /\ last'.callbacks = <<Call("onSuccess", last'.arg[1])>> ]_vars

\* C5: from the initial state, with valid values and a client that rejects
\* with e, submissionState goes idle -> submitting -> error, authError is
\* exactly e, onError is invoked once with e, onSuccess is not invoked and the
\* flag is clear afterwards.
C5_FailurePath ==
  [][ /\ ScenarioStart
      /\ (submissionState = "submitting" /\ pending = 1 /\ last'.op = "reject")
           => /\ submissionState' = "error"
              /\ last'.arg[1] \in AuthErrors
              /\ authError' = last'.arg
              /\ isSubmittingRef' = FALSE
              /\ last'.callbacks = <<Call("onError", last'.arg[1])>> ]_vars

C5_Witness ==
  /\ last.op = "reject"
  /\ submissionState = "error"
  /\ authError = last.arg
  /\ pending = 0

\* C6: every login() invocation receives exactly the current
\* {email, password, rememberMe}; these pass validateLoginForm and the email
\* is a fixed point of sanitizeEmail; login() is invoked by nothing else.
C6_LoginArgs ==
  [][ /\ (last'.op = "submit_started"
            => /\ last'.arg = Some(credentialsOf(values))
               /\ values' = values
               /\ validateLoginForm(values).isValid
               /\ sanitizeEmail(values.email) = values.email)
      /\ (pending' > pending => last'.op = "submit_started") ]_vars

C6_Witness ==
  /\ last.op = "submit_started"
  /\ last.arg = Some([email |-> S_email, password |-> S_password, rememberMe |-> TRUE])

\* C7: resetForm() can be called in every state, and after it values are the
\* initial values, errors and touched are empty, authError is null, the flag
\* is clear and submissionState is 'idle'.
C7_Reset ==
  /\ ENABLED ResetForm
  /\ (last.op = "resetForm"
        => /\ values = INITIAL_FORM_VALUES
           /\ errors = <<>>
           /\ touched = {}
           /\ authError = NULL
           /\ isSubmittingRef = FALSE
           /\ submissionState = "idle")

\* a reset with a login() call in flight
C7_Witness == last.op = "resetForm" /\ pending = 1 /\ submissionState = "idle"

\* C8: after any handleChange, in any submissionState, authError is null.
C8_ChangeClearsAuthError == last.op = "handleChange" => authError = NULL

\* a change after a rejected (or failed) submission: with both field
\* validations off, empty errors with all fields touched come from a submit
\* that passed validation, and 'error' then comes from its settlement
C8_Witness ==
  /\ last.op = "handleChange"
  /\ ~validateOnChange /\ ~validateOnBlur
  /\ submissionState = "error"
  /\ errors = <<>>
  /\ touched = Fields
  /\ authError = NULL

\* C9: no dead state: whenever no login() call is outstanding the flag is
\* clear, so a handleSubmit of valid values is accepted and invokes login();
\* and, the client settling every call, 'submitting' is always left.
C9_NoDeadState ==
  /\ [](pending = 0 => ~isSubmittingRef)
  /\ [][ (pending = 0 /\ validateLoginForm(values).isValid /\ last'.op \in SubmitOps)
           => /\ last'.op = "submit_started"
              /\ pending' = 1
              /\ submissionState' = "submitting" ]_vars
  /\ (submissionState = "submitting") ~> (submissionState # "submitting")

\* an accepted submission in flight, all fields touched by the submit
C9_Witness ==
  /\ last.op = "submit_started"
  /\ submissionState = "submitting"
  /\ touched = Fields
  /\ authError = NULL
  /\ pending = 1

\* the policy of the redirect guard as the specification words it
AllowedRoots == {S_dashboard, S_profile, S_settings}
AllowedByPolicy(url) ==
  \/ url = S_slash
  \/ \E root \in AllowedRoots : url = root \/ startsWith(url, root \o S_slash)

RejectedPrefixes == {S_http, S_https, S_slashslash, S_javascript, S_data}

\* C10: isValidRedirectUrl(url) is true exactly when url is '/' or is one of
\* the three roots or begins with a root followed by '/'; it is false for the
\* empty and the white-space-only string, for the five rejected prefixes, for
\* every url not beginning with '/', and for '/admin'.
C10_RedirectGuard ==
  redirectResult # NULL =>
    /\ redirectResult[1] = AllowedByPolicy(redirectArg)
    /\ (Len(trim(redirectArg)) = 0 => redirectResult[1] = FALSE)
    /\ (\A p \in RejectedPrefixes : startsWith(redirectArg, p) => redirectResult[1] = FALSE)
    /\ (~startsWith(redirectArg, S_slash) => redirectResult[1] = FALSE)
    /\ (redirectArg = S_admin => redirectResult[1] = FALSE)

C10_Witness ==
  /\ redirectResult = Some(TRUE)
  /\ redirectArg = S_dashboard \o <<"/","x">>


\* the call fn has returned
Returned(fn) == call.fn = fn /\ result # NULL

\* C11: getSafeRedirectUrl(candidate, d) returns the candidate unchanged when
\* the candidate passes isValidRedirectUrl (undefined and '' do not) and
\* returns d otherwise, whether or not d is itself a safe destination; an
\* omitted d is '/dashboard'.
C11_SafeRedirect ==
  Returned("getSafeRedirectUrl") =>
    LET candidate == call.args.redirectUrl
        d == call.args.defaultUrl
        candidateValid == candidate # NULL /\ isValidRedirectUrl(candidate[1])
        fallback == IF d = NULL THEN S_dashboard ELSE d[1]
    IN  result[1] = IF candidateValid THEN candidate[1] ELSE fallback

\* an unsafe candidate with the default omitted came back as '/dashboard'
C11_Witness ==
  /\ Returned("getSafeRedirectUrl")
  /\ call.args.redirectUrl = Some(S_slashslash \o S_evil)
  /\ call.args.defaultUrl = NULL
  /\ result = Some(S_dashboard)


\* the destinations the last step passed to navigate()
Navigations ==
  {last.callbacks[i].arg : i \in {j \in DOMAIN last.callbacks : last.callbacks[j].fn = "navigate"}}

\* C12: whatever the redirectTo prop and the redirectUrl of the response,
\* every destination LoginPage passes to navigate() satisfies
\* isValidRedirectUrl or is '/dashboard', and navigate() is called only by
\* the step in which login() resolved and the success handler returned.
C12_SafeNavigation ==
  \A dest \in Navigations :
    /\ isValidRedirectUrl(dest) \/ dest = S_dashboard
    /\ last.op = "resolve"
    /\ submissionState = "success"

\* an external redirectTo was replaced by '/dashboard'
C12_Witness ==
  /\ page # NULL
  /\ page[1].redirectTo = Some(S_https \o S_evil)
  /\ last.op = "resolve"
  /\ Navigations = {S_dashboard}

\* a path inside the application: one leading '/', no scheme, no host
InternalPath(url) == startsWith(url, S_slash) /\ ~startsWith(url, S_slashslash)

\* C13: when the redirectTo prop is given (an application path such as the
\* documented "/custom-dashboard"), the page navigates to that url after a
\* successful login; the redirectUrl of the response is used only when
\* redirectTo is absent.
C13_RedirectToHonoured ==
  \A dest \in Navigations :
    LET redirectTo == page[1].redirectTo IN
    /\ (redirectTo # NULL /\ InternalPath(redirectTo[1])) => dest = redirectTo[1]
    /\ (dest # S_dashboard /\ Some(dest) = last.arg[1].redirectUrl
          /\ Some(dest) # redirectTo)
         => (redirectTo = NULL \/ redirectTo = Some(<<>>))


\* the type of a validateField result: "none" for null
TypeOf(fieldError) == IF fieldError = NULL THEN "none" ELSE fieldError[1].type

\* C14: validateField returns the error of the first failing rule in the
\* fixed order of the field, and null when every rule passes: email is
\* required (trimmed value non-empty), then format, then maxLength (trimmed
\* length at most 254); password is required (length > 0), then minLength
\* (length >= 8), then maxLength (length <= 128); any other field gives
\* null; the result is never more than one error.
C14_FirstFailingRule ==
  Returned("validateField") =>
    LET field == call.args.field
        v == call.args.value
        t == trim(v)
        expected ==
          IF field = "email"
            THEN IF Len(t) = 0 THEN "required"
                 ELSE IF ~EMAIL_REGEX(t) THEN "format"
                 ELSE IF Len(t) > 254 THEN "maxLength"
                 ELSE "none"
          ELSE IF field = "password"
            THEN IF Len(v) = 0 THEN "required"
                 ELSE IF Len(v) < 8 THEN "minLength"
                 ELSE IF Len(v) > 128 THEN "maxLength"
                 ELSE "none"
          ELSE "none"
    IN  /\ TypeOf(result[1]) = expected
        /\ Len(result[1]) <= 1
        /\ result[1] # NULL => result[1][1].field = field

\* an email failing both format and maxLength came back with format only
C14_Witness ==
  /\ Returned("validateField")
  /\ call.args.field = "email"
  /\ call.args.value = Repeat("a", 255)
  /\ TypeOf(result[1]) = "format"

\* the part of an address before its first '@' (the whole string without one)
RECURSIVE LocalPart(_)
LocalPart(s) ==
  IF s = <<>> \/ Head(s) = "@" THEN <<>> ELSE <<Head(s)>> \o LocalPart(Tail(s))

HasChar(s, c) == \E i \in 1..Len(s) : s[i] = c

ConsecutiveDots(s) == \E i \in 1..(Len(s) - 1) : s[i] = "." /\ s[i + 1] = "."

\* the ill-formed addresses listed: no '@', an empty local part, no domain,
\* a space inside, two consecutive dots in the local part
IllFormed(t) ==
  \/ ~HasChar(t, "@")
  \/ Head(t) = "@"
  \/ t[Len(t)] = "@"
  \/ HasChar(t, " ")
  \/ ConsecutiveDots(LocalPart(t))

\* C15: validateField('email', v) returns an error of type 'format' for
\* every non-empty v that is ill-formed: no '@', an empty local part, no
\* domain, a space inside, or two consecutive dots in the local part
\* ('invalid..email@domain.com').
C15_FormatRejectsIllFormed ==
  (Returned("validateField") /\ call.args.field = "email") =>
    LET t == trim(call.args.value)
    IN  (Len(t) > 0 /\ IllFormed(t)) => TypeOf(result[1]) = "format"

\* the errors of a validateLoginForm result that belong to one field
ErrorsOf(validation, field) ==
  SelectSeq(validation.errors, LAMBDA err : err.field = field)

\* C16: validateLoginForm(v) evaluates both fields whatever the other one
\* gives, returns at most one error per field with the email error first,
\* has isValid true exactly when errors is empty, and does not depend on
\* v.rememberMe.
C16_WholeForm ==
  Returned("validateLoginForm") =>
    LET v == call.args.values
        validation == result[1]
        flipped == [v EXCEPT !.rememberMe = ~v.rememberMe]
    IN  /\ ErrorsOf(validation, "email") = validateField("email", v.email)
        /\ ErrorsOf(validation, "password") = validateField("password", v.password)
        /\ validation.errors =
             ErrorsOf(validation, "email") \o ErrorsOf(validation, "password")
        /\ validation.isValid = (validation.errors = <<>>)
        /\ validateLoginForm(flipped) = validation

\* both fields invalid: two errors, the email one first
C16_Witness ==
  /\ Returned("validateLoginForm")
  /\ Len(result[1].errors) = 2
  /\ result[1].errors[1].field = "email"
  /\ result[1].errors[2].field = "password"
  /\ ~result[1].isValid

\* C17: sanitizeEmail is idempotent, and its result has no leading or
\* trailing whitespace and no uppercase ASCII letter.
C17_SanitizeIdempotent ==
  Returned("sanitizeEmail") =>
    LET out == result[1] IN
    /\ sanitizeEmail(out) = out
    /\ out # <<>> => (out[1] \notin WhiteChars /\ out[Len(out)] \notin WhiteChars)
    /\ \A i \in 1..Len(out) : out[i] \notin UpperChars

\* a padded mixed-case address came back trimmed and lowered
C17_Witness ==
  /\ Returned("sanitizeEmail")
  /\ call.args.email = S_rawEmail
  /\ result = Some(S_email)


\* C18: canSubmitForm(values, isSubmitting) is true exactly when
\* isSubmitting is false and validateLoginForm(values).isValid is true; so
\* the hook's canSubmit is false in every state where submissionState is
\* 'submitting' and in every state where the current values are invalid.
C18_CanSubmit ==
  LET valid == validateLoginForm(values).isValid IN
  /\ \A b \in BOOLEAN : canSubmitForm(values, b) = (~b /\ valid)
  /\ submissionState = "submitting" => ~canSubmit
  /\ ~valid => ~canSubmit
  /\ canSubmit = (~isSubmitting /\ valid)

\* valid values while a submission is in flight: canSubmit is false
C18_Witness ==
  /\ submissionState = "submitting"
  /\ validateLoginForm(values).isValid
  /\ pending > 0
  /\ ~canSubmit


\* the code of what login() rejected with: "undefined" when the value has none
CodeOf(error) == IF "code" \in DOMAIN error THEN error.code ELSE "undefined"

\* the wire mapping from status to code
WireCode(status) ==
  CASE status = 400 -> "VALIDATION_ERROR"
    [] status = 401 -> "INVALID_CREDENTIALS"
    [] status = 403 -> "ACCOUNT_DISABLED"
    [] status = 408 -> "NETWORK_ERROR"
    [] status = 423 -> "ACCOUNT_LOCKED"
    [] status = 429 -> "TOO_MANY_ATTEMPTS"
    [] status >= 500 /\ status <= 599 -> "SERVER_ERROR"
    [] OTHER -> "any"

\* login() rejected because of the status of the response, because of the
\* timeout, or because the transport failed
FailedBy(cause) ==
  req.phase = "settled" /\ req.outcome[1].kind = "rejected" /\ req.cause = cause

\* C19: the authentication client maps every failure to an AuthError whose
\* code follows the wire mapping: 400 VALIDATION_ERROR, 401
\* INVALID_CREDENTIALS, 403 ACCOUNT_DISABLED, 408 and timeout NETWORK_ERROR,
\* 423 ACCOUNT_LOCKED, 429 TOO_MANY_ATTEMPTS, every 5xx SERVER_ERROR,
\* transport failure NETWORK_ERROR; for every status the code is a member
\* of AuthErrorCode.
C19_WireMapping ==
  LET code == CodeOf(req.outcome[1].value) IN
  /\ FailedBy("status") =>
       /\ code \in AuthErrorCode
       /\ WireCode(req.status[1]) # "any" => code = WireCode(req.status[1])
  /\ FailedBy("timeout") => code = "NETWORK_ERROR"
  /\ FailedBy("transport") => code = "NETWORK_ERROR"

\* a login() call that has started and not settled
InFlight == req.phase \in {"fetching", "errorBody", "body"}

\* C20: when the timer fires before the request has completed, the request
\* is aborted and login() rejects with NETWORK_ERROR; so, timers being
\* fired eventually, no login() call stays pending forever.
C20_TimeoutBoundsLogin ==
  /\ [](req.timer = "fired" =>
         /\ req.phase = "settled"
         /\ req.outcome[1].kind = "rejected"
         /\ CodeOf(req.outcome[1].value) = "NETWORK_ERROR")
  /\ (InFlight ~> req.phase = "settled")


\* an object with a code in AuthErrorCode and a message
IsAuthError(value) ==
  /\ "code" \in DOMAIN value
  /\ value.code \in AuthErrorCode
  /\ "message" \in DOMAIN value

\* C21: whatever the outcome of the request (non-2xx status with or without
\* a parsable body, 2xx status whose body fails to parse, abort on timeout,
\* transport failure), the value login() rejects with is an AuthError: an
\* object with a code in AuthErrorCode and a message.
C21_RejectionsAreAuthErrors ==
  (req.phase = "settled" /\ req.outcome[1].kind = "rejected")
    => IsAuthError(req.outcome[1].value)

\* what login() rejects with for an error response of this status and body
RejectionFor(status, body) ==
  Rejected(catchFetch(thrownForStatus(status, errorDataOf(body))))

\* C22: the AuthError produced for an HTTP error response depends on the
\* status only: the same status with any other body gives the identical
\* code and message.
C22_BodyIndependent ==
  FailedBy("status") =>
    \A other \in ErrorBodies : RejectionFor(req.status[1], other) = req.outcome


\* C23: the password is masked at first; each toggleVisibility flips
\* isVisible, so it is visible after an odd number of toggles and masked
\* again after any even number; inputType is 'text' exactly when isVisible.
C23_ToggleAlternates ==
  /\ isVisible = (toggles % 2 = 1)
  /\ (inputType = "text") = isVisible
  /\ inputType \in {"text", "password"}
  /\ toggles = 0 => (~isVisible /\ inputType = "password")

\* a typed password masked again after two toggles
C23_Witness ==
  /\ toggles = 2
  /\ values.password = S_password
  /\ ~isVisible
  /\ inputType = "password"


\* C24: submissionState becomes 'success' only by a step taken from
\* 'submitting', a rejection of login() sets 'error' only from 'submitting',
\* and once resetForm() has made the state 'idle' it stays 'idle' until the
\* next handleSubmit, also when a login() call started earlier settles.
C24_SettleOnlyFromSubmitting ==
  [][ /\ (submissionState' = "success" /\ submissionState # "success")
            => submissionState = "submitting"
      /\ last'.op = "reject" => submissionState = "submitting"
      /\ (submissionState = "idle" /\ last'.op \notin SubmitOps)
            => submissionState' = "idle" ]_vars

\* C25 as stated: submissionState enters 'submitting' only from 'idle' or
\* 'error'; a handleSubmit in 'success' starts no authentication call.
C25_SubmittingOnlyFromIdleOrError ==
  [][ (submissionState' = "submitting" /\ submissionState # "submitting")
        => submissionState \in {"idle", "error"} ]_vars

\* C25 amended: submissionState enters 'submitting' only by a handleSubmit
\* that passes the guard and starts a login() call, never while it is
\* already 'submitting'; the state before is 'idle', 'error' or 'success',
\* and a handleSubmit of valid values in 'success' does start a new call.
C25_EntersSubmittingBySubmit ==
  [][ /\ (submissionState' = "submitting" /\ submissionState # "submitting")
            => /\ last'.op = "submit_started"
               /\ ~isSubmittingRef
               /\ pending' = pending + 1
      /\ last'.op = "submit_started" => submissionState \in {"idle", "error", "success"}
      /\ (/\ submissionState = "success"
          /\ pending = 0
          /\ last'.op \in SubmitOps
          /\ validateLoginForm(values).isValid)
            => /\ last'.op = "submit_started"
               /\ submissionState' = "submitting" ]_vars

\* a succeeded form whose handleSubmit will pass the guard: state
\* 'success', values valid, flag clear, nothing outstanding, canSubmit true
C25_Witness ==
  /\ submissionState = "success"
  /\ last.op = "resolve"
  /\ pending = 0
  /\ ~isSubmittingRef
  /\ canSubmit
  /\ ENABLED (HandleSubmit /\ submissionState' = "submitting")


\* C26: in every state in which a login() call is outstanding,
\* submissionState is 'submitting' and the re-entrancy flag is set, and the
\* state leaves 'submitting' only by the step in which the call resolves or
\* rejects.
C26_OutstandingMeansSubmitting ==
  [][ /\ pending' > 0 => (submissionState' = "submitting" /\ isSubmittingRef')
      /\ (submissionState = "submitting" /\ submissionState' # "submitting")
            => last'.op \in {"resolve", "reject"} ]_vars

\* the callbacks named fn among those the last step invoked
CallsOf(fn) == SelectSeq(last.callbacks, LAMBDA c : c.fn = fn)

\* C27: authError is set, and onError invoked, only with a value login()
\* rejected with: the step in which login() resolves ends with
\* submissionState 'success', leaves authError null and does not invoke
\* onError, whatever the success callback does.
C27_ResolveNeverFails ==
  [][ /\ (last'.op = "resolve" /\ submissionState = "submitting" /\ pending = 1)
            => /\ submissionState' = "success"
               /\ authError' = NULL
               /\ CallsOf("onError")' = <<>>
      /\ (authError' # NULL /\ authError' # authError)
            => (last'.op = "reject" /\ authError' = last'.arg)
      /\ CallsOf("onError")' # <<>>
            => (last'.op = "reject" /\ CallsOf("onError")' = <<Call("onError", last'.arg[1])>>) ]_vars


\* C28: for every combination of validateOnChange and validateOnBlur, right
\* after a handleSubmit that passed the re-entrancy guard the errors of the
\* hook are validateLoginForm(values).errors for the current values,
\* whatever errors earlier change and blur events had left.
C28_SubmitReplacesErrors ==
  last.op \in {"submit_invalid", "submit_started"}
    => errors = validateLoginForm(values).errors

\* with validation on blur only, a refused submit of a good email and a
\* short password shows the password error alone
C28_Witness ==
  /\ last.op = "submit_invalid"
  /\ ~validateOnChange /\ validateOnBlur
  /\ values.email = S_email
  /\ values.password = S_short
  /\ Len(errors) = 1
  /\ errors[1].field = "password"
  /\ errors[1].type = "minLength"


\* the errors of one field, in the order of the list
ErrorsFor(errs, field) == SelectSeq(errs, LAMBDA err : err.field = field)

\* a handleChange or handleBlur event on the given field
FieldStep(field) ==
  \/ \E value \in (IF field = "email" THEN EmailInputs
                   ELSE IF field = "password" THEN PasswordInputs
                   ELSE BOOLEAN) :
       HandleChange(field, value)
  \/ HandleBlur(field)

\* C29: after any sequence of handleChange, handleBlur, handleSubmit and
\* resetForm, under any configuration, the errors list holds at most one
\* FieldError per field and only for the fields email and password; and a
\* change or blur on one field leaves the error of every other field exactly
\* as it was.
C29_OneErrorPerField ==
  /\ [](/\ \A i \in DOMAIN errors : errors[i].field \in {"email", "password"}
        /\ \A i, j \in DOMAIN errors :
             errors[i].field = errors[j].field => i = j)
  /\ [][\A field \in Fields :
          (last'.op \in FieldOps /\ FieldStep(field))
            => \A other \in Fields \ {field} :
                 ErrorsFor(errors', other) = ErrorsFor(errors, other)]_vars

\* a blur of the password field has added its error behind the email error
\* that an earlier event left
C29_Witness ==
  /\ last.op = "handleBlur"
  /\ Len(errors) = 2
  /\ errors[1].field = "email"
  /\ errors[2].field = "password"
  /\ touched = {"email", "password"}


\* C30: in every state between events the re-entrancy flag isSubmittingRef
\* is set exactly when submissionState is 'submitting', so the isSubmitting
\* and canSubmit values handed to the UI agree with the guard that
\* handleSubmit applies; and handleChange and handleBlur change neither the
\* flag nor the state.
C30_RefMatchesState ==
  /\ [](/\ isSubmittingRef <=> submissionState = "submitting"
        /\ isSubmitting <=> submitDropped(isSubmittingRef)
        /\ canSubmit = canSubmitForm(values, submitDropped(isSubmittingRef)))
  /\ [][last'.op \in FieldOps
          => /\ isSubmittingRef' = isSubmittingRef
             /\ submissionState' = submissionState]_vars

\* the password is retyped while a valid submission is in flight: the flag
\* is still set, the state still 'submitting', and canSubmit false
C30_Witness ==
  /\ last.op = "handleChange"
  /\ isSubmittingRef
  /\ isSubmitting
  /\ pending = 1
  /\ values.password = S_password
  /\ validateLoginForm(values).isValid
  /\ ~canSubmit

====
